---- MODULE Spec2Model ----
(***************************************************************************)
(* FeishuChannel (src/channels/feishu.rs): a wrapper that owns one         *)
(* LarkChannel built with use_feishu pinned to true and forwards every     *)
(* Channel operation to it.                                                *)
(*                                                                         *)
(* LarkChannel (src/channels/lark.rs) is modelled from the specification   *)
(* (sections 4.2, 4.3, 5 and 7); every Lark* definition below is such a    *)
(* definition.  Every Feishu* definition is translated from feishu.rs.     *)
(*                                                                         *)
(* Strings the program only stores (credentials, tokens) are TLA+ strings. *)
(* User identifiers, which the program compares, are sequences of          *)
(* characters, so that exact equality differs from prefix matching and     *)
(* from case-insensitive matching.  Option<T> is a sequence of length at   *)
(* most one.                                                               *)
(***************************************************************************)
EXTENDS Naturals, Sequences, FiniteSets

VARIABLES
    ch,         \* Option<FeishuChannel>: <<>> before construction
    built,      \* history: the constructor called and its arguments
    named,      \* Option<&str>: what the last name() call returned
    asked,      \* Option: the last is_user_allowed call and its answer
    pending,    \* the short-lived calls in flight (awaiting the platform)
    log,        \* history: the wrapper's completed calls and their results
    wire,       \* history: the inner adapter's completed calls and results
    listening,  \* position of the listen task: idle, running, returned
    arrivals,   \* history: messages the transport delivered to listen
    queue,      \* contents of the mpsc channel behind the Sender given to listen
    delivered   \* history: messages the consumer received from the channel

vars == <<ch, built, named, asked, pending, log, wire, listening, arrivals, queue, delivered>>

---------------------------------------------------------------------------
(* Bounds of the model *)

\* longest allow-list a constructor is given
MaxAllow == 2
\* send / health_check / start_typing / stop_typing calls made in one run
MaxCalls == 2
\* inbound messages the transport delivers in one run
MaxArrivals == 2
\* capacity of the bounded mpsc channel handed to listen
QueueCap == 1

---------------------------------------------------------------------------
(* Values *)

None == <<>>
Some(x) == <<x>>

\* Option<String>::unwrap_or_default(): the empty string when absent
UnwrapOrDefault(o) == IF o = None THEN "" ELSE o[1]

Range(s) == {s[i] : i \in 1..Len(s)}

\* user identifiers (open_id), as character sequences
Star == <<"*">>
EmptyId == <<>>
User1 == <<"o", "u", "1">>
User2 == <<"o", "u", "2">>
User1Upper == <<"O", "U", "1">>
User1Prefix == <<"o", "u">>
Stranger == <<"o", "u", "9">>

\* every identifier is_user_allowed is asked about
Ids == {EmptyId, Star, User1, User2, User1Upper, User1Prefix, Stranger}
\* the identifiers configurations list
AllowIds == {Star, User1, User2}
\* the senders of inbound messages
Senders == {User1, Stranger}
\* the recipients of outbound messages and typing indicators
Recipients == {User1}

AllowLists == UNION {[1..n -> AllowIds] : n \in 0..MaxAllow}
AppIds == {"cli_app123"}
AppSecrets == {"secret456"}
Tokens == {"", "vtoken789"}
OptTokens == {None, Some(""), Some("vtoken789")}
Ports == {None, Some(8080)}
ReceiveModes == {"Webhook", "Websocket"}

\* FeishuConfig records (config::schema::FeishuConfig as feishu.rs uses it)
ConfigsOver(tokens, ports, lists) ==
    [app_id : AppIds, app_secret : AppSecrets, encrypt_key : {None},
     verification_token : tokens, allowed_users : lists,
     receive_mode : ReceiveModes, port : ports]

Configs == ConfigsOver(OptTokens, Ports, AllowLists)

\* the adapters that go on to serve calls: an allow-list of either kind
\* (match-any, one user) and no port, as in the tests, on every construction
\* path and in every receive mode
RunTokens == {"vtoken789"}
RunPorts == {None}
RunAllowLists == {<<Star>>, <<User1>>}
RunConfigs == ConfigsOver({None}, RunPorts, RunAllowLists)

\* what the platform answers to one request
Outcomes == {"ok", "network"}

\* the argument of a call: SendMessage for send, the recipient for typing
Arg(recipient, content) == [recipient |-> recipient, content |-> content]
NoArg == Arg(EmptyId, "")
SendMessages == {Arg(r, "hello") : r \in Recipients}
TypingArgs == {Arg(r, "") : r \in Recipients}
ChannelMessages == [sender : Senders, content : {"hi"}]

\* results: anyhow::Result<()> and bool
RetOk == [kind |-> "Ok", val |-> "()"]
RetErr(e) == [kind |-> "Err", val |-> e]
RetBool(b) == [kind |-> "bool", val |-> IF b THEN "true" ELSE "false"]

---------------------------------------------------------------------------
(* LarkChannel, the generalized adapter *)

LarkNew(app_id, app_secret, verification_token, port, allowed_users) ==
    [app_id |-> app_id, app_secret |-> app_secret,
     verification_token |-> verification_token, port |-> port,
     allowed_users |-> allowed_users,
     use_feishu |-> FALSE, receive_mode |-> "Webhook"]

LarkWithFeishu(self, use_feishu) == [self EXCEPT !.use_feishu = use_feishu]

LarkWithReceiveMode(self, receive_mode) == [self EXCEPT !.receive_mode = receive_mode]

LarkName(self) == "lark"

LarkHost(self) == IF self.use_feishu THEN "open.feishu.cn" ELSE "open.larksuite.com"

LarkIsUserAllowed(self, open_id) ==
    \E i \in 1..Len(self.allowed_users) :
        self.allowed_users[i] = Star \/ self.allowed_users[i] = open_id

\* one completed call of the inner adapter, as the platform side saw it
LarkCall(self, op, arg, ret) ==
    [op |-> op, arg |-> arg, host |-> LarkHost(self), ret |-> ret]

LarkResult(outcome) == IF outcome = "ok" THEN RetOk ELSE RetErr(outcome)

\* the effect of one call: its result, the inner calls made, the adapter after
LarkEffect(self, op, arg, ret) ==
    [ret |-> ret, calls |-> <<LarkCall(self, op, arg, ret)>>, self |-> self]

LarkSend(self, message, outcome) ==
    LarkEffect(self, "send", message, LarkResult(outcome))

LarkHealthCheck(self, outcome) ==
    LarkEffect(self, "health_check", NoArg, RetBool(outcome = "ok"))

LarkStartTyping(self, recipient, outcome) ==
    LarkEffect(self, "start_typing", recipient, LarkResult(outcome))

LarkStopTyping(self, recipient, outcome) ==
    LarkEffect(self, "stop_typing", recipient, LarkResult(outcome))

\* One step of the listen task on the event ev of the transport: an inbound
\* message is queued iff its sender is allowed; a failure or a shutdown ends
\* the task.
LarkListen(self, tx, ev) ==
    CASE ev.kind = "message" ->
           [tx |-> IF LarkIsUserAllowed(self, ev.msg.sender)
                   THEN Append(tx, ev.msg) ELSE tx,
            done |-> FALSE, ret |-> RetOk, calls |-> <<>>, self |-> self]
      [] ev.kind = "failure" ->
           [tx |-> tx, done |-> TRUE, ret |-> RetErr("transport"),
            calls |-> <<LarkCall(self, "listen", NoArg, RetErr("transport"))>>,
            self |-> self]
      [] OTHER ->
           [tx |-> tx, done |-> TRUE, ret |-> RetOk,
            calls |-> <<LarkCall(self, "listen", NoArg, RetOk)>>,
            self |-> self]

---------------------------------------------------------------------------
(* FeishuChannel, the specialized adapter *)

\* ASCII lower-casing of an identifier (str::to_lowercase)
LowerChar(c) == CASE c = "O" -> "o" [] c = "U" -> "u" [] OTHER -> c
ToLowercase(id) == [i \in 1..Len(id) |-> LowerChar(id[i])]

FeishuNew(app_id, app_secret, verification_token, port, allowed_users) ==
    [inner |-> LarkWithFeishu(
                   LarkNew(app_id, app_secret, verification_token, port, allowed_users),
                   TRUE)]

\* from_config without .with_feishu(true)
FeishuFromConfigUnpinned(config) ==
    [inner |-> LarkWithReceiveMode(
                   LarkNew(config.app_id, config.app_secret,
                           UnwrapOrDefault(config.verification_token),
                           config.port, config.allowed_users),
                   config.receive_mode)]

\* from_config defaulting an absent token to the application secret
FeishuFromConfigSecretAsToken(config) ==
    [inner |-> LarkWithReceiveMode(
                   LarkWithFeishu(
                       LarkNew(config.app_id, config.app_secret,
                               IF config.verification_token = None
                               THEN config.app_secret
                               ELSE config.verification_token[1],
                               config.port, config.allowed_users),
                       TRUE),
                   config.receive_mode)]

\* from_config passing an empty allow-list instead of config.allowed_users
FeishuFromConfigNoUsers(config) ==
    [inner |-> LarkWithReceiveMode(
                   LarkWithFeishu(
                       LarkNew(config.app_id, config.app_secret,
                               UnwrapOrDefault(config.verification_token),
                               config.port, <<>>),
                       TRUE),
                   config.receive_mode)]

FeishuFromConfig(config) ==
    [inner |-> LarkWithReceiveMode(
                   LarkWithFeishu(
                       LarkNew(config.app_id, config.app_secret,
                               UnwrapOrDefault(config.verification_token),
                               config.port, config.allowed_users),
                       TRUE),
                   config.receive_mode)]

\* is_user_allowed lower-casing the identifier before it asks the inner adapter
FeishuIsUserAllowedLowercased(self, open_id) ==
    LarkIsUserAllowed(self.inner, ToLowercase(open_id))

FeishuIsUserAllowed(self, open_id) == LarkIsUserAllowed(self.inner, open_id)

\* name() delegating to the inner adapter like every other method
FeishuNameDelegated(self) == LarkName(self.inner)

FeishuName(self) == "feishu"

\* self.inner.<op>(..).await: the inner call's result and calls, unchanged
Forward(effect) ==
    [ret |-> effect.ret, calls |-> effect.calls, self |-> [inner |-> effect.self]]

\* send discarding the inner result and reporting success
FeishuSendSwallowed(self, message, outcome) ==
    [ret |-> RetOk, calls |-> LarkSend(self.inner, message, outcome).calls,
     self |-> self]

\* send going through a rebuilt inner adapter that lost the pinned flag
FeishuSendUnpinned(self, message, outcome) ==
    Forward(LarkSend(LarkWithFeishu(self.inner, FALSE), message, outcome))

FeishuSend(self, message, outcome) == Forward(LarkSend(self.inner, message, outcome))

\* health_check running the probe and answering true whatever it found
FeishuHealthCheckOptimistic(self, outcome) ==
    [ret |-> RetBool(TRUE), calls |-> LarkHealthCheck(self.inner, outcome).calls,
     self |-> self]

FeishuHealthCheck(self, outcome) == Forward(LarkHealthCheck(self.inner, outcome))

FeishuStartTyping(self, recipient, outcome) ==
    Forward(LarkStartTyping(self.inner, recipient, outcome))

FeishuStopTyping(self, recipient, outcome) ==
    Forward(LarkStopTyping(self.inner, recipient, outcome))

\* listen queueing every inbound message itself, without the allow-list check
FeishuListenUnfiltered(self, tx, ev) ==
    LET e == LarkListen(self.inner, tx, ev)
    IN  [tx |-> IF ev.kind = "message" THEN Append(tx, ev.msg) ELSE e.tx,
         done |-> e.done, ret |-> e.ret, calls |-> e.calls,
         self |-> [inner |-> e.self]]

FeishuListen(self, tx, ev) ==
    LET e == LarkListen(self.inner, tx, ev)
    IN  [tx |-> e.tx, done |-> e.done, ret |-> e.ret, calls |-> e.calls,
         self |-> [inner |-> e.self]]

---------------------------------------------------------------------------
(* The state machine *)

Init ==
    /\ ch = None
    /\ built = None
    /\ named = None
    /\ asked = None
    /\ pending = {}
    /\ log = <<>>
    /\ wire = <<>>
    /\ listening = "idle"
    /\ arrivals = <<>>
    /\ queue = <<>>
    /\ delivered = <<>>

Constructed == ch # None

\* FeishuChannel::new, its arguments drawn from the given sets
NewFrom(tokens, ports, lists) ==
    /\ ch = None
    /\ \E app_id \in AppIds, app_secret \in AppSecrets, verification_token \in tokens,
          port \in ports, allowed_users \in lists :
          /\ ch' = Some(FeishuNew(app_id, app_secret, verification_token, port,
                                  allowed_users))
          /\ built' = Some([path |-> "new", app_id |-> app_id,
                            app_secret |-> app_secret,
                            verification_token |-> Some(verification_token),
                            port |-> port, allowed_users |-> allowed_users,
                            receive_mode |-> None])
    /\ UNCHANGED <<named, asked, pending, log, wire, listening, arrivals, queue,
                   delivered>>

\* FeishuChannel::from_config, its record drawn from the given set
FromConfigFrom(configs) ==
    /\ ch = None
    /\ \E config \in configs :
          /\ ch' = Some(FeishuFromConfig(config))
          /\ built' = Some([path |-> "from_config", app_id |-> config.app_id,
                            app_secret |-> config.app_secret,
                            verification_token |-> config.verification_token,
                            port |-> config.port,
                            allowed_users |-> config.allowed_users,
                            receive_mode |-> Some(config.receive_mode)])
    /\ UNCHANGED <<named, asked, pending, log, wire, listening, arrivals, queue,
                   delivered>>

New == NewFrom(RunTokens, RunPorts, RunAllowLists)

FromConfig == FromConfigFrom(RunConfigs)

NewAny == NewFrom(Tokens, Ports, AllowLists)

FromConfigAny == FromConfigFrom(Configs)

\* FeishuChannel::is_user_allowed
IsUserAllowed ==
    /\ Constructed
    /\ \E open_id \in Ids :
          asked' = Some([open_id |-> open_id,
                         allowed |-> FeishuIsUserAllowed(ch[1], open_id)])
    /\ UNCHANGED <<ch, built, named, pending, log, wire, listening, arrivals, queue,
                   delivered>>

\* Channel::name
Name ==
    /\ Constructed
    /\ named' = Some(FeishuName(ch[1]))
    /\ UNCHANGED <<ch, built, asked, pending, log, wire, listening, arrivals, queue,
                   delivered>>

\* a short-lived call is made: its future runs up to the await on the platform
Call(op, arg) ==
    /\ Constructed
    /\ Len(log) + Cardinality(pending) < MaxCalls
    /\ [op |-> op, arg |-> arg] \notin pending
    /\ pending' = pending \cup {[op |-> op, arg |-> arg]}
    /\ UNCHANGED <<ch, built, named, asked, log, wire, listening, arrivals, queue,
                   delivered>>

\* the platform answers, the inner call returns and so does the wrapper's
Return(op, arg, outcome, effect) ==
    /\ [op |-> op, arg |-> arg] \in pending
    /\ pending' = pending \ {[op |-> op, arg |-> arg]}
    /\ log' = Append(log, [op |-> op, arg |-> arg, outcome |-> outcome,
                           ret |-> effect.ret])
    /\ wire' = wire \o effect.calls
    /\ ch' = Some(effect.self)
    /\ UNCHANGED <<built, named, asked, listening, arrivals, queue, delivered>>

SendCall == \E message \in SendMessages : Call("send", message)

SendReturn ==
    \E message \in SendMessages, outcome \in Outcomes :
        Return("send", message, outcome, FeishuSend(ch[1], message, outcome))

HealthCheckCall == Call("health_check", NoArg)

HealthCheckReturn ==
    \E outcome \in Outcomes :
        Return("health_check", NoArg, outcome, FeishuHealthCheck(ch[1], outcome))

StartTypingCall == \E recipient \in TypingArgs : Call("start_typing", recipient)

StartTypingReturn ==
    \E recipient \in TypingArgs, outcome \in Outcomes :
        Return("start_typing", recipient, outcome,
               FeishuStartTyping(ch[1], recipient, outcome))

StopTypingCall == \E recipient \in TypingArgs : Call("stop_typing", recipient)

StopTypingReturn ==
    \E recipient \in TypingArgs, outcome \in Outcomes :
        Return("stop_typing", recipient, outcome,
               FeishuStopTyping(ch[1], recipient, outcome))

\* Channel::listen is called with the Sender of an empty channel
ListenCall ==
    /\ Constructed
    /\ listening = "idle"
    /\ listening' = "running"
    /\ UNCHANGED <<ch, built, named, asked, pending, log, wire, arrivals, queue,
                   delivered>>

\* one step of the running listen task on a transport event
ListenStep(ev) ==
    LET e == FeishuListen(ch[1], queue, ev)
    IN  /\ listening = "running"
        /\ queue' = e.tx
        /\ ch' = Some(e.self)
        /\ wire' = wire \o e.calls
        /\ IF e.done
           THEN /\ listening' = "returned"
                /\ log' = Append(log, [op |-> "listen", arg |-> NoArg,
                                       outcome |-> ev.kind, ret |-> e.ret])
           ELSE UNCHANGED <<listening, log>>

\* the transport delivers an inbound message; a full channel suspends the task
ListenMessage ==
    \E msg \in ChannelMessages :
        /\ Len(arrivals) < MaxArrivals
        /\ Len(queue) < QueueCap
        /\ ListenStep([kind |-> "message", msg |-> msg])
        /\ arrivals' = Append(arrivals, msg)
        /\ UNCHANGED <<built, named, asked, pending, delivered>>

\* the transport fails for good: listen returns the error
ListenFailure ==
    /\ ListenStep([kind |-> "failure"])
    /\ UNCHANGED <<built, named, asked, pending, arrivals, delivered>>

\* the transport shuts down: listen returns
ListenShutdown ==
    /\ ListenStep([kind |-> "shutdown"])
    /\ UNCHANGED <<built, named, asked, pending, arrivals, delivered>>

\* the consumer receives the oldest queued message
Recv ==
    /\ queue # <<>>
    /\ delivered' = Append(delivered, Head(queue))
    /\ queue' = Tail(queue)
    /\ UNCHANGED <<ch, built, named, asked, pending, log, wire, listening, arrivals>>

Next ==
    \/ New
    \/ FromConfig
    \/ Name
    \/ SendCall
    \/ SendReturn
    \/ HealthCheckCall
    \/ HealthCheckReturn
    \/ StartTypingCall
    \/ StartTypingReturn
    \/ StopTypingCall
    \/ StopTypingReturn
    \/ ListenCall
    \/ ListenMessage
    \/ ListenFailure
    \/ ListenShutdown
    \/ Recv

\* adapters built from configurations of each kind, then used concurrently
Spec == Init /\ [][Next]_vars

\* construction from every configuration, then the synchronous queries
NextConstruct ==
    \/ NewAny
    \/ FromConfigAny
    \/ IsUserAllowed
    \/ Name

SpecConstruct == Init /\ [][NextConstruct]_vars

---------------------------------------------------------------------------
(* The claims *)

\* the allow-list the constructor was given
Given == built[1].allowed_users

\* what the claims say is_user_allowed answers for x
Listed(x) == Star \in Range(Given) \/ x \in Range(Given)

\* the adapter new builds from the same arguments and an empty token
DirectWithEmptyToken ==
    FeishuNew(built[1].app_id, built[1].app_secret, "", built[1].port, Given)

FromConfigWithoutToken ==
    /\ Constructed
    /\ built[1].path = "from_config"
    /\ built[1].verification_token = None

\* C1: on either construction path and for every identifier x, the empty one
\* included, is_user_allowed(x) is true iff the allow-list given holds "*" or
\* holds x itself (exact, case-sensitive, no prefix matching); with "*" listed
\* the other entries make no difference.
C1_AllowedIffStarOrListed ==
    Constructed =>
        /\ \A x \in Ids : FeishuIsUserAllowed(ch[1], x) <=> Listed(x)
        /\ asked # None => (asked[1].allowed <=> Listed(asked[1].open_id))

\* "*" listed beside another entry, and the empty identifier was allowed
C1_Witness ==
    /\ Constructed
    /\ Given = <<User1, Star>>
    /\ asked = Some([open_id |-> EmptyId, allowed |-> TRUE])

\* C2: name() returns "feishu" on every construction path and after any calls
\* of send, listen, health_check, start_typing and stop_typing; it is never
\* the inner adapter's name.
C2_NameIsFeishu ==
    /\ Constructed =>
           /\ FeishuName(ch[1]) = "feishu"
           /\ FeishuName(ch[1]) # LarkName(ch[1].inner)
    /\ named # None => named[1] = "feishu"

\* name() was called after a listen that returned and two completed calls
C2_Witness ==
    /\ Constructed
    /\ named = Some("feishu")
    /\ built[1].path = "from_config"
    /\ listening = "returned"
    /\ Len(log) >= 3

\* C3: new and from_config always yield an inner adapter with use_feishu set,
\* so one that talks to the Feishu host.
C3_FlagPinned ==
    Constructed =>
        /\ ch[1].inner.use_feishu = TRUE
        /\ LarkHost(ch[1].inner) = "open.feishu.cn"

\* built by from_config, which also sets the receive mode after pinning
C3_Witness ==
    /\ Constructed
    /\ built[1].path = "from_config"
    /\ built[1].receive_mode = Some("Websocket")
    /\ ch[1].inner.use_feishu

\* C4 as stated: from_config on a record without a verification token yields
\* the adapter new yields from the same application id, secret, port and
\* allow-list and an empty token.
C4_SameAsDirect == FromConfigWithoutToken => ch[1] = DirectWithEmptyToken

\* C4 as amended: the two adapters agree on every field but the receive mode
\* and on every is_user_allowed answer; the receive mode is the record's, so
\* they are the same adapter iff the record's receive mode is the one new
\* leaves in place.
C4_SameUpToReceiveMode ==
    FromConfigWithoutToken =>
        LET a == ch[1].inner
            d == DirectWithEmptyToken.inner
        IN  /\ a.app_id = d.app_id
            /\ a.app_secret = d.app_secret
            /\ a.verification_token = ""
            /\ a.verification_token = d.verification_token
            /\ a.port = d.port
            /\ a.allowed_users = d.allowed_users
            /\ a.use_feishu = d.use_feishu
            /\ a.receive_mode = built[1].receive_mode[1]
            /\ \A x \in Ids :
                   FeishuIsUserAllowed(ch[1], x)
                       <=> FeishuIsUserAllowed(DirectWithEmptyToken, x)
            /\ (a.receive_mode = d.receive_mode) <=> (ch[1] = DirectWithEmptyToken)

\* a record without a token whose receive mode is not the default one
C4_Witness ==
    /\ FromConfigWithoutToken
    /\ built[1].receive_mode = Some("Websocket")
    /\ Given = <<User1, User2>>
    /\ ch[1].inner.verification_token = ""

\* C5 as stated: after from_config, is_user_allowed is true for every listed
\* identifier and false for every identifier absent from the list.
C5_RoundTrip ==
    (Constructed /\ built[1].path = "from_config") =>
        /\ \A x \in Range(Given) : FeishuIsUserAllowed(ch[1], x)
        /\ \A x \in Ids \ Range(Given) : ~FeishuIsUserAllowed(ch[1], x)

\* C5 as amended: after from_config, is_user_allowed is true for every listed
\* identifier, and false for every identifier absent from a list that does
\* not hold "*".
C5_RoundTripWithoutStar ==
    (Constructed /\ built[1].path = "from_config") =>
        /\ \A x \in Range(Given) : FeishuIsUserAllowed(ch[1], x)
        /\ Star \notin Range(Given) =>
               \A x \in Ids \ Range(Given) : ~FeishuIsUserAllowed(ch[1], x)
        /\ (asked # None /\ asked[1].open_id \in Range(Given)) => asked[1].allowed
        /\ (asked # None /\ Star \notin Range(Given)
                /\ asked[1].open_id \notin Range(Given)) => ~asked[1].allowed

\* the record of the repository's test: two users listed, a stranger refused
C5_Witness ==
    /\ Constructed
    /\ built[1].path = "from_config"
    /\ Given = <<User1, User2>>
    /\ asked = Some([open_id |-> Stranger, allowed |-> FALSE])

\* the calls the inner adapter makes when entry e of the log is made on it
Direct(inner, e) ==
    CASE e.op = "send" -> LarkSend(inner, e.arg, e.outcome)
      [] e.op = "health_check" -> LarkHealthCheck(inner, e.outcome)
      [] e.op = "start_typing" -> LarkStartTyping(inner, e.arg, e.outcome)
      [] e.op = "stop_typing" -> LarkStopTyping(inner, e.arg, e.outcome)
      [] OTHER ->
           LET l == LarkListen(inner, <<>>, [kind |-> e.outcome])
           IN  [ret |-> l.ret, calls |-> l.calls, self |-> l.self]

\* C6: every completed send, listen, health_check, start_typing and stop_typing
\* of the wrapper is one call of the same operation of the inner adapter with
\* the same argument, and returns what that call returned: the wrapper's
\* results and the inner adapter's calls are those of the same calls made on
\* the inner adapter directly.
C6_PureForward ==
    /\ Len(wire) = Len(log)
    /\ \A i \in 1..Len(log) :
           /\ i <= Len(wire)
           /\ wire[i].op = log[i].op
           /\ wire[i].arg = log[i].arg
           /\ wire[i].ret = log[i].ret
           /\ log[i].ret = Direct(ch[1].inner, log[i]).ret
           /\ <<wire[i]>> = Direct(ch[1].inner, log[i]).calls

\* a send that failed, a health check and a listen that returned an error
C6_Witness ==
    /\ \E i \in 1..Len(log) : log[i].op = "send" /\ log[i].ret = RetErr("network")
    /\ \E i \in 1..Len(log) : log[i].op = "health_check"
    /\ \E i \in 1..Len(log) : log[i].op = "listen" /\ log[i].ret.kind = "Err"

\* the arrivals whose sender is_user_allowed accepts, in arrival order
Accepted ==
    LET Allowed(m) == FeishuIsUserAllowed(ch[1], m.sender)
    IN  SelectSeq(arrivals, Allowed)

C8_HealthCheckBoolean ==
    \A i \in 1..Len(log) :
        log[i].op = "health_check" =>
            /\ log[i].ret.kind = "bool"
            /\ log[i].outcome # "ok" => log[i].ret = RetBool(FALSE)

\* a health check whose probe failed answered false
C8_Witness ==
    \E i \in 1..Len(log) :
        /\ log[i].op = "health_check"
        /\ log[i].outcome = "network"
        /\ log[i].ret = RetBool(FALSE)

\* C9: no constructor returns an adapter in webhook receive mode without a
\* port (the missing field is reported at construction).
C9_NoWebhookWithoutPort ==
    Constructed => ~(ch[1].inner.receive_mode = "Webhook" /\ ch[1].inner.port = None)

\* C10: once constructed, the adapter's configuration (flag, receive mode,
\* allow-list, credentials) is changed by no step of any interleaving of
\* send, health_check, start_typing, stop_typing and the listen task, and
\* is_user_allowed keeps its answer for every identifier.
C10_ConfigurationFixed ==
    [][Constructed =>
           /\ ch' = ch
           /\ \A x \in Ids :
                  FeishuIsUserAllowed(ch'[1], x) <=> FeishuIsUserAllowed(ch[1], x)]_vars

\* a call in flight and one completed while listen runs and has had a message
C10_Witness ==
    /\ listening = "running"
    /\ arrivals # <<>>
    /\ pending # {}
    /\ Len(log) >= 1

====
